---------------------------- MODULE Spec2Model ----------------------------
(***************************************************************************)
(* Model of magika-dir-stats (src/python/main.py): main validates the      *)
(* target path, scan_directory walks the tree and accumulates bytes per    *)
(* type label, display_results prints the sorted table, format_size        *)
(* renders a byte count.                                                   *)
(*                                                                         *)
(* Byte counts handed to format_size are kept as base-1024 digit           *)
(* sequences (least significant digit first), so that 1024^4 and 1024^5    *)
(* are representable; dividing by 1024.0 is exact in binary64 for every    *)
(* count that binary64 holds exactly, which is the domain modelled here.   *)
(***************************************************************************)
EXTENDS Integers, Sequences, FiniteSets, TLC

VARIABLES
    pc,               \* control point: "main", "scan", "display", "exit"; "format", "formatted"
    directory,        \* what the target path is: "missing", "file" or "dir"
    tree,             \* directory -> its non-directory entries, as listed
    magika,           \* TRUE once Magika() has been constructed
    todo,             \* os.walk: directories still to be listed
    visited,          \* os.walk: directories listed so far
    root,             \* os.walk: directory whose files are being processed
    files,            \* entries of root not yet processed
    file_type_sizes,  \* the accumulator, in insertion order
    stat_calls,       \* paths whose size was requested, in call order
    identify_calls,   \* paths handed to magika.identify_path, in call order
    processed,        \* paths for which the loop body has run
    stdout,
    stderr,
    exit_status,      \* -1 while running
    size_bytes,       \* format_size alone: its argument
    formatted         \* format_size alone: its result

vars == <<pc, directory, tree, magika, todo, visited, root, files,
          file_type_sizes, stat_calls, identify_calls, processed,
          stdout, stderr, exit_status, size_bytes, formatted>>

scanVars == <<directory, tree, magika, todo, visited, root, files,
              file_type_sizes, stat_calls, identify_calls, processed,
              stdout, stderr, exit_status>>

-----------------------------------------------------------------------------
(* The file system the program is run on                                   *)

MaxSize == 2

MaxFiles == 3

Labels == {"text", "image"}

\* how reading a file goes: "ok"; "stat_oserror": stat() raises OSError;
\* "identify_oserror": identify_path raises OSError; "identify_error":
\* identify_path raises an exception that is not an OSError
Outcomes == {"ok", "stat_oserror", "identify_oserror", "identify_error"}

InodeKinds ==
    [size : 0..MaxSize, label : Labels, outcome : {"ok"}]
    \cup [size : {MaxSize}, label : {"text"},
          outcome : Outcomes \ {"ok"}]

RECURSIVE SetToSeq(_)
SetToSeq(S) ==
    IF S = {} THEN <<>>
    ELSE LET x == CHOOSE y \in S : TRUE IN <<x>> \o SetToSeq(S \ {x})

\* the files on disk: inode number -> size, type label, and how reading
\* the file goes
inodes == SetToSeq(InodeKinds)

\* a name in a directory: a regular file (hard link to inode ino) or a
\* symbolic link whose target is inode ino (0: the target does not exist)
EntryKinds ==
    [kind : {"file"}, ino : 1..Len(inodes)]
    \cup [kind : {"symlink"},
          ino : {0} \cup {n \in 1..Len(inodes) :
                             inodes[n].outcome = "ok" /\ inodes[n].size = MaxSize}]

\* "root" is the target; "sub" is a real directory in it; "outside" is a
\* directory reachable only through the symbolic link root/lnk
Dirs == {"root", "sub", "outside"}

SubDirs(d) ==
    IF d = "root"
    THEN {[name |-> "sub", islink |-> FALSE, target |-> "sub"],
          [name |-> "lnk", islink |-> TRUE, target |-> "outside"]}
    ELSE {}

SeqsUpTo(S, n) == UNION {[1..m -> S] : m \in 0..n}

\* the listings of a directory with n names; the order of a listing is
\* immaterial (entries are processed in any order), so one listing stands
\* for all its permutations
Entries == SetToSeq(EntryKinds)

Listings ==
    [n \in 0..MaxFiles |->
        {[i \in 1..n |-> Entries[ix[i]]] :
            ix \in {jx \in [1..n -> 1..Len(Entries)] :
                       \A i \in 1..(n - 1) : jx[i] <= jx[i + 1]}}]

ListingsUpTo(n) == UNION {Listings[m] : m \in 0..n}

\* what root/lnk leads to: a directory holding one regular file
Outside ==
    <<[kind |-> "file",
       ino  |-> CHOOSE n \in 1..Len(inodes) :
                   inodes[n].outcome = "ok" /\ inodes[n].size = MaxSize]>>

Path(d, i) == <<d, i>>

-----------------------------------------------------------------------------
(* main, up to the call of scan_directory                                  *)

Init ==
    /\ pc = "main"
    /\ directory \in {"missing", "file", "dir"}
    /\ \E r \in ListingsUpTo(IF directory = "dir" THEN MaxFiles ELSE 0) :
          \E s \in ListingsUpTo(IF directory = "dir" THEN MaxFiles - Len(r) ELSE 0) :
              tree = [d \in Dirs |->
                         IF d = "root" THEN r ELSE IF d = "sub" THEN s ELSE Outside]
    /\ magika = FALSE
    /\ todo = <<>>
    /\ visited = {}
    /\ root = "none"
    /\ files = {}
    /\ file_type_sizes = <<>>
    /\ stat_calls = <<>>
    /\ identify_calls = <<>>
    /\ processed = {}
    /\ stdout = <<>>
    /\ stderr = <<>>
    /\ exit_status = -1
    /\ size_bytes = <<>>
    /\ formatted = [text |-> "", hundredths |-> 0, unit |-> "", k |-> 0]

Line(kind, c1, c2, c3, size, pct) ==
    [kind |-> kind, c1 |-> c1, c2 |-> c2, c3 |-> c3, size |-> size, pct |-> pct]

\* `if not directory.exists()`: error on stderr, exit(1)
MainMissing ==
    /\ pc = "main"
    /\ directory = "missing"
    /\ stderr' = Append(stderr, Line("error", "does not exist", "target", "", 0, 0))
    /\ exit_status' = 1
    /\ pc' = "exit"
    /\ UNCHANGED <<directory, tree, magika, todo, visited, root, files,
                   file_type_sizes, stat_calls, identify_calls, processed,
                   stdout, size_bytes, formatted>>

\* variant of MainNotDir: no is_dir test, os.walk of a file lists nothing
MainNotDirScans ==
    /\ pc = "main"
    /\ directory = "file"
    /\ magika' = TRUE
    /\ file_type_sizes' = <<>>
    /\ todo' = <<>>
    /\ pc' = "scan"
    /\ UNCHANGED <<directory, tree, visited, root, files,
                   stat_calls, identify_calls, processed,
                   stdout, stderr, exit_status, size_bytes, formatted>>

\* `if not directory.is_dir()`: error on stderr, exit(1)
MainNotDir ==
    /\ pc = "main"
    /\ directory = "file"
    /\ stderr' = Append(stderr, Line("error", "is not a directory", "target", "", 0, 0))
    /\ exit_status' = 1
    /\ pc' = "exit"
    /\ UNCHANGED <<directory, tree, magika, todo, visited, root, files,
                   file_type_sizes, stat_calls, identify_calls, processed,
                   stdout, size_bytes, formatted>>

\* magika = Magika(); scan_directory is entered: empty accumulator, os.walk
\* starts at the target
MainScan ==
    /\ pc = "main"
    /\ directory = "dir"
    /\ magika' = TRUE
    /\ file_type_sizes' = <<>>
    /\ todo' = <<"root">>
    /\ pc' = "scan"
    /\ UNCHANGED <<directory, tree, visited, root, files,
                   stat_calls, identify_calls, processed,
                   stdout, stderr, exit_status, size_bytes, formatted>>

-----------------------------------------------------------------------------
(* scan_directory                                                          *)

\* os.walk(directory), followlinks=False: a listed directory's
\* subdirectories are walked unless they are symbolic links
WalkInto(d) == {s.target : s \in {t \in SubDirs(d) : ~t.islink}}

\* the outer loop takes the next (root, _, files) from os.walk
Walk ==
    /\ pc = "scan"
    /\ files = {}
    /\ todo # <<>>
    /\ root' = Head(todo)
    /\ files' = 1..Len(tree[Head(todo)])
    /\ visited' = visited \cup {Head(todo)}
    /\ todo' = SetToSeq(WalkInto(Head(todo))) \o Tail(todo)
    /\ UNCHANGED <<pc, directory, tree, magika, file_type_sizes,
                   stat_calls, identify_calls, processed,
                   stdout, stderr, exit_status, size_bytes, formatted>>

HasKey(d, key) == \E j \in 1..Len(d) : d[j].key = key

Get(d, key) ==
    IF HasKey(d, key) THEN d[CHOOSE j \in 1..Len(d) : d[j].key = key].value ELSE 0

\* variant of Accumulate: `=` in place of `+=`
AccumulateAssign(d, key, n) ==
    IF HasKey(d, key)
    THEN [j \in 1..Len(d) |->
            IF d[j].key = key THEN [key |-> key, value |-> n] ELSE d[j]]
    ELSE Append(d, [key |-> key, value |-> n])

\* variant of Accumulate: setdefault(file_type, file_size) in place of `+=`
AccumulateSetDefault(d, key, n) ==
    IF HasKey(d, key) THEN d ELSE Append(d, [key |-> key, value |-> n])

\* file_type_sizes[file_type] += file_size on a defaultdict(int)
Accumulate(d, key, n) ==
    IF HasKey(d, key)
    THEN [j \in 1..Len(d) |->
            IF d[j].key = key THEN [key |-> key, value |-> d[j].value + n] ELSE d[j]]
    ELSE Append(d, [key |-> key, value |-> n])

\* variant of SkipSymlink: no is_symlink test, the link is read through
FollowSymlink(i) ==
    /\ pc = "scan"
    /\ i \in files
    /\ tree[root][i].kind = "symlink"
    /\ stat_calls' = Append(stat_calls, Path(root, i))
    /\ IF tree[root][i].ino # 0 /\ inodes[tree[root][i].ino].outcome = "ok"
       THEN /\ identify_calls' = Append(identify_calls, Path(root, i))
            /\ file_type_sizes' = Accumulate(file_type_sizes,
                                             inodes[tree[root][i].ino].label,
                                             inodes[tree[root][i].ino].size)
            /\ stderr' = stderr
       ELSE /\ identify_calls' = identify_calls
            /\ file_type_sizes' = file_type_sizes
            /\ stderr' = Append(stderr, Line("warning", "Could not process", Path(root, i), "", 0, 0))
    /\ files' = files \ {i}
    /\ processed' = processed \cup {Path(root, i)}
    /\ UNCHANGED <<pc, directory, tree, magika, todo, visited, root,
                   stdout, exit_status, size_bytes, formatted>>

\* `if filepath.is_symlink(): continue`
SkipSymlink(i) ==
    /\ pc = "scan"
    /\ i \in files
    /\ tree[root][i].kind = "symlink"
    /\ files' = files \ {i}
    /\ processed' = processed \cup {Path(root, i)}
    /\ UNCHANGED <<pc, directory, tree, magika, todo, visited, root,
                   file_type_sizes, stat_calls, identify_calls,
                   stdout, stderr, exit_status, size_bytes, formatted>>

\* variant of ProcessFile: `if file_size:` guards the aggregation
ProcessFileSkipsEmpty(i) ==
    /\ pc = "scan"
    /\ i \in files
    /\ tree[root][i].kind # "symlink"
    /\ inodes[tree[root][i].ino].outcome = "ok"
    /\ stat_calls' = Append(stat_calls, Path(root, i))
    /\ identify_calls' = Append(identify_calls, Path(root, i))
    /\ file_type_sizes' =
          IF inodes[tree[root][i].ino].size = 0
          THEN file_type_sizes
          ELSE Accumulate(file_type_sizes,
                          inodes[tree[root][i].ino].label,
                          inodes[tree[root][i].ino].size)
    /\ files' = files \ {i}
    /\ processed' = processed \cup {Path(root, i)}
    /\ UNCHANGED <<pc, directory, tree, magika, todo, visited, root,
                   stdout, stderr, exit_status, size_bytes, formatted>>

\* the try body runs to its end
ProcessFile(i) ==
    /\ pc = "scan"
    /\ i \in files
    /\ tree[root][i].kind # "symlink"
    /\ inodes[tree[root][i].ino].outcome = "ok"
    /\ stat_calls' = Append(stat_calls, Path(root, i))
    /\ identify_calls' = Append(identify_calls, Path(root, i))
    /\ file_type_sizes' = Accumulate(file_type_sizes,
                                     inodes[tree[root][i].ino].label,
                                     inodes[tree[root][i].ino].size)
    /\ files' = files \ {i}
    /\ processed' = processed \cup {Path(root, i)}
    /\ UNCHANGED <<pc, directory, tree, magika, todo, visited, root,
                   stdout, stderr, exit_status, size_bytes, formatted>>

\* variant of ProcessOSError: no except clause, the OSError ends the run
ProcessOSErrorUncaught(i) ==
    /\ pc = "scan"
    /\ i \in files
    /\ tree[root][i].kind # "symlink"
    /\ inodes[tree[root][i].ino].outcome \in {"stat_oserror", "identify_oserror"}
    /\ stat_calls' = Append(stat_calls, Path(root, i))
    /\ identify_calls' =
          IF inodes[tree[root][i].ino].outcome = "identify_oserror"
          THEN Append(identify_calls, Path(root, i))
          ELSE identify_calls
    /\ stderr' = Append(stderr, Line("traceback", "OSError", Path(root, i), "", 0, 0))
    /\ processed' = processed \cup {Path(root, i)}
    /\ exit_status' = 1
    /\ pc' = "exit"
    /\ UNCHANGED <<directory, tree, magika, todo, visited, root, files,
                   file_type_sizes, stdout, size_bytes, formatted>>

\* stat() or identify_path raises OSError: `except (OSError,
\* PermissionError)` prints the warning and continues
ProcessOSError(i) ==
    /\ pc = "scan"
    /\ i \in files
    /\ tree[root][i].kind # "symlink"
    /\ inodes[tree[root][i].ino].outcome \in {"stat_oserror", "identify_oserror"}
    /\ stat_calls' = Append(stat_calls, Path(root, i))
    /\ identify_calls' =
          IF inodes[tree[root][i].ino].outcome = "identify_oserror"
          THEN Append(identify_calls, Path(root, i))
          ELSE identify_calls
    /\ stderr' = Append(stderr, Line("warning", "Could not process", Path(root, i), "", 0, 0))
    /\ files' = files \ {i}
    /\ processed' = processed \cup {Path(root, i)}
    /\ UNCHANGED <<pc, directory, tree, magika, todo, visited, root,
                   file_type_sizes, stdout, exit_status, size_bytes, formatted>>

\* identify_path raises an exception the except clause does not name: it
\* leaves scan_directory and main, the interpreter prints the traceback
\* and exits with status 1
ProcessError(i) ==
    /\ pc = "scan"
    /\ i \in files
    /\ tree[root][i].kind # "symlink"
    /\ inodes[tree[root][i].ino].outcome = "identify_error"
    /\ stat_calls' = Append(stat_calls, Path(root, i))
    /\ identify_calls' = Append(identify_calls, Path(root, i))
    /\ stderr' = Append(stderr, Line("traceback", "identify_path", Path(root, i), "", 0, 0))
    /\ processed' = processed \cup {Path(root, i)}
    /\ exit_status' = 1
    /\ pc' = "exit"
    /\ UNCHANGED <<directory, tree, magika, todo, visited, root, files,
                   file_type_sizes, stdout, size_bytes, formatted>>

\* os.walk is exhausted: return dict(file_type_sizes)
ScanReturn ==
    /\ pc = "scan"
    /\ files = {}
    /\ todo = <<>>
    /\ pc' = "display"
    /\ UNCHANGED <<directory, tree, magika, todo, visited, root, files,
                   file_type_sizes, stat_calls, identify_calls, processed,
                   stdout, stderr, exit_status, size_bytes, formatted>>

(* format_size                                                             *)

K == 1024

Units == <<"B", "KB", "MB", "GB", "TB">>

NumLimbs == Len(Units) + 2

\* n as NumLimbs base-1024 digits, least significant first
ToLimbs(n) == [i \in 1..NumLimbs |-> IF i <= 4 THEN (n \div (K ^ (i - 1))) % K ELSE 0]

\* digits of 100 * limbs: schoolbook multiplication with carry
RECURSIVE Times100(_, _, _)
Times100(limbs, i, carry) ==
    IF i > Len(limbs)
    THEN <<carry % K, carry \div K>>
    ELSE <<(limbs[i] * 100 + carry) % K>>
         \o Times100(limbs, i + 1, (limbs[i] * 100 + carry) \div K)

\* value of the digits of m at positions > k
RECURSIVE HighPart(_, _)
HighPart(m, k) ==
    IF k >= Len(m) THEN 0 ELSE m[k + 1] + K * HighPart(m, k + 1)

\* variant of Below1024: `<=` in place of `<`
AtMost1024(limbs, k) ==
    \/ \A j \in (k + 2)..Len(limbs) : limbs[j] = 0
    \/ /\ k + 2 <= Len(limbs)
       /\ limbs[k + 2] = 1
       /\ \A j \in 1..Len(limbs) : j # k + 2 => limbs[j] = 0

\* the test `size_bytes < 1024.0` after k divisions by 1024.0
Below1024(limbs, k) == \A j \in (k + 2)..Len(limbs) : limbs[j] = 0

\* 100 * limbs / 1024^k rounded to an integer the way `:.2f` rounds the
\* (exact) binary64 quotient: to nearest, ties to even
Hundredths(limbs, k) ==
    LET m    == Times100(limbs, 1, 0)
        fl   == HighPart(m, k)
        top  == IF k = 0 THEN 0 ELSE m[k]
        rest == \E j \in 1..(k - 1) : m[j] # 0
        up   == \/ top > K \div 2
                \/ top = K \div 2 /\ rest
                \/ top = K \div 2 /\ ~rest /\ fl % 2 = 1
    IN  IF up THEN fl + 1 ELSE fl

\* the loop of format_size: unit index and scaled value at the return
RECURSIVE ScaleSize(_, _)
ScaleSize(limbs, k) ==
    IF k >= Len(Units)
    THEN [k |-> k, hundredths |-> Hundredths(limbs, k), unit |-> "PB"]
    ELSE IF Below1024(limbs, k)
         THEN [k |-> k, hundredths |-> Hundredths(limbs, k), unit |-> Units[k + 1]]
         ELSE ScaleSize(limbs, k + 1)

\* "{x:.2f}" of a value given in hundredths
FixedTwo(h) ==
    ToString(h \div 100) \o "." \o ToString((h % 100) \div 10) \o ToString(h % 10)

format_size(limbs) ==
    LET s == ScaleSize(limbs, 0) IN FixedTwo(s.hundredths) \o " " \o s.unit

-----------------------------------------------------------------------------
(* display_results, and the end of main                                    *)

RECURSIVE Sum(_)
Sum(d) == IF d = <<>> THEN 0 ELSE Head(d).value + Sum(Tail(d))

Remove(d, m) == [j \in 1..(Len(d) - 1) |-> IF j < m THEN d[j] ELSE d[j + 1]]

\* sorted(items, key=size, reverse=True): descending and stable, equal
\* sizes keep the order they have in the dict
RECURSIVE Sorted(_)
Sorted(d) ==
    IF d = <<>> THEN <<>>
    ELSE LET m == CHOOSE j \in 1..Len(d) :
                     /\ \A l \in 1..Len(d) : d[l].value <= d[j].value
                     /\ \A l \in 1..(j - 1) : d[l].value < d[j].value
         IN  <<d[m]>> \o Sorted(Remove(d, m))

\* (size / total_size) * 100 printed with `.2f`, in hundredths of a
\* percent: the nearest hundredth; when the exact quotient lies halfway
\* between two hundredths the rounding errors of the two binary64
\* operations decide, and either neighbour can be printed
Percentage(size, total) ==
    LET q == (10000 * size) \div total
        r == (10000 * size) % total
    IN  IF 2 * r < total THEN {q}
        ELSE IF 2 * r > total THEN {q + 1}
        ELSE {q, q + 1}

\* the percentages the row loop can print, one per sorted item
RECURSIVE Percentages(_, _)
Percentages(items, total) ==
    IF items = <<>> THEN {<<>>}
    ELSE {<<p>> \o rest : p \in Percentage(Head(items).value, total),
                          rest \in Percentages(Tail(items), total)}

Rule == Line("rule", "", "", "", 0, 0)

Header == Line("header", "File Type", "Size", "Percentage", 0, 0)

Row(item, pct) ==
    Line("row", item.key, format_size(ToLimbs(item.value)),
         FixedTwo(pct) \o "%", item.value, pct)

TotalRow(total) ==
    Line("total", "Total", format_size(ToLimbs(total)), "100.00%", total, 10000)

\* `if not file_type_sizes`: the message, return; main returns, exit 0
DisplayEmpty ==
    /\ pc = "display"
    /\ file_type_sizes = <<>>
    /\ stdout' = Append(stdout, Line("message", "No files found.", "", "", 0, 0))
    /\ exit_status' = 0
    /\ pc' = "exit"
    /\ UNCHANGED <<directory, tree, magika, todo, visited, root, files,
                   file_type_sizes, stat_calls, identify_calls, processed,
                   stderr, size_bytes, formatted>>

\* the table: header, one row per sorted item, total; main returns, exit 0
DisplayTable ==
    /\ pc = "display"
    /\ file_type_sizes # <<>>
    /\ Sum(file_type_sizes) # 0
    /\ LET total_size   == Sum(file_type_sizes)
           sorted_items == Sorted(file_type_sizes)
       IN  \E pcts \in Percentages(sorted_items, total_size) :
              /\ stdout' = stdout \o <<Rule, Header, Rule>>
                            \o [j \in 1..Len(sorted_items) |-> Row(sorted_items[j], pcts[j])]
                            \o <<Rule, TotalRow(total_size), Rule>>
    /\ exit_status' = 0
    /\ pc' = "exit"
    /\ UNCHANGED <<directory, tree, magika, todo, visited, root, files,
                   file_type_sizes, stat_calls, identify_calls, processed,
                   stderr, size_bytes, formatted>>

\* total_size is 0: size / total_size raises ZeroDivisionError in the
\* first iteration of the row loop, after the header was printed; nothing
\* catches it, the interpreter prints the traceback and exits with status 1
DisplayZeroDivision ==
    /\ pc = "display"
    /\ file_type_sizes # <<>>
    /\ Sum(file_type_sizes) = 0
    /\ stdout' = stdout \o <<Rule, Header, Rule>>
    /\ stderr' = Append(stderr, Line("traceback", "ZeroDivisionError", "", "", 0, 0))
    /\ exit_status' = 1
    /\ pc' = "exit"
    /\ UNCHANGED <<directory, tree, magika, todo, visited, root, files,
                   file_type_sizes, stat_calls, identify_calls, processed,
                   size_bytes, formatted>>

Next ==
    \/ MainMissing
    \/ MainNotDir
    \/ MainScan
    \/ Walk
    \/ \E i \in files : SkipSymlink(i)
    \/ \E i \in files : ProcessFile(i)
    \/ \E i \in files : ProcessOSError(i)
    \/ \E i \in files : ProcessError(i)
    \/ ScanReturn
    \/ DisplayEmpty
    \/ DisplayTable
    \/ DisplayZeroDivision

Spec == Init /\ [][Next]_vars

-----------------------------------------------------------------------------
(* Specification of format_size alone: the input is any count whose        *)
(* digits come from FormatDigits and which binary64 holds exactly.         *)

FormatDigits == {0, 1, 128, 512, 1023}

FormatTopDigits == {0, 1, 7}

\* counts that binary64 holds exactly: below 2^53, or 1024^6 plus a
\* multiple of 1024 below 2^53
FormatInputs ==
    {l \in [1..NumLimbs -> FormatDigits \cup FormatTopDigits] :
        /\ l[NumLimbs] \in {0, 1}
        /\ l[NumLimbs - 1] \in FormatTopDigits
        /\ \A i \in 1..(NumLimbs - 2) : l[i] \in FormatDigits
        /\ l[NumLimbs] = 1 => l[1] = 0}

InitFormat ==
    /\ pc = "format"
    /\ size_bytes \in FormatInputs
    /\ formatted = [text |-> "", hundredths |-> 0, unit |-> "", k |-> 0]
    /\ directory = "missing"
    /\ tree = [d \in Dirs |-> <<>>]
    /\ magika = FALSE
    /\ todo = <<>>
    /\ visited = {}
    /\ root = "none"
    /\ files = {}
    /\ file_type_sizes = <<>>
    /\ stat_calls = <<>>
    /\ identify_calls = <<>>
    /\ processed = {}
    /\ stdout = <<>>
    /\ stderr = <<>>
    /\ exit_status = -1

FormatSize ==
    /\ pc = "format"
    /\ formatted' = [text       |-> format_size(size_bytes),
                     hundredths |-> ScaleSize(size_bytes, 0).hundredths,
                     unit       |-> ScaleSize(size_bytes, 0).unit,
                     k          |-> ScaleSize(size_bytes, 0).k]
    /\ pc' = "formatted"
    /\ UNCHANGED <<size_bytes, scanVars>>

NextFormat == FormatSize

SpecFormat == InitFormat /\ [][NextFormat]_vars

-----------------------------------------------------------------------------
(* Vocabulary of the properties                                            *)

\* the directories reachable from the target through real directories
RealDirs == {"root"} \cup {s.target : s \in {t \in SubDirs("root") : t.islink = FALSE}}

AllPaths(D) == UNION {{Path(d, i) : i \in 1..Len(tree[d])} : d \in D}

Entry(p) == tree[p[1]][p[2]]

IsSymlink(p) == Entry(p).kind = "symlink"

Outcome(p) == inodes[Entry(p).ino].outcome

SizeOf(p) == inodes[Entry(p).ino].size

LabelOf(p) == inodes[Entry(p).ino].label

\* p is a regular file whose size read and classification both succeed
Succeeds(p) == ~IsSymlink(p) /\ Outcome(p) = "ok"

RECURSIVE SumSizes(_)
SumSizes(P) ==
    IF P = {} THEN 0
    ELSE LET p == CHOOSE q \in P : TRUE IN SizeOf(p) + SumSizes(P \ {p})

Range(q) == {q[j] : j \in 1..Len(q)}

Warnings == {l \in Range(stderr) : l.kind = "warning"}

\* scan_directory returned a map to main
Returned == directory = "dir" /\ pc \in {"display", "exit"}
            /\ \A l \in Range(stderr) : ~(l.kind = "traceback" /\ l.c1 = "identify_path")

Rows == SelectSeq(stdout, LAMBDA l : l.kind = "row")

-----------------------------------------------------------------------------
(* Properties of scan_directory and main (specification Spec)              *)

\* C1: at every point of the scan, and when it has returned, the values of
\* the accumulator sum to the sizes of the processed entries that are
\* regular files whose size read and classification succeeded, the value
\* under each label is the sum over those classified under it, and at the
\* return every entry of every real directory has been processed.
ScanSumsExact ==
    directory = "dir" /\ pc # "main" =>
        LET done == {p \in processed : Succeeds(p)} IN
        /\ processed \subseteq AllPaths(RealDirs)
        /\ Sum(file_type_sizes) = SumSizes(done)
        /\ \A L \in Labels :
              Get(file_type_sizes, L) = SumSizes({p \in done : LabelOf(p) = L})
        /\ \A j, l \in 1..Len(file_type_sizes) :
              file_type_sizes[j].key = file_type_sizes[l].key => j = l
        /\ pc = "display" => processed = AllPaths(RealDirs)

ScanSumsWitness ==
    /\ pc = "display"
    /\ \E p, q \in processed :
          /\ p # q /\ Succeeds(p) /\ Succeeds(q)
          /\ LabelOf(p) = LabelOf(q) /\ SizeOf(p) > 0 /\ SizeOf(q) > 0
    /\ \E p \in processed : ~Succeeds(p)

\* C2 as stated: processing a regular file whose size lookup or
\* classification raises any error leaves the accumulator alone, prints
\* exactly one warning naming the path, drops the file from the pending
\* entries and leaves the scan running.
FailureStep(errors) ==
    \A i \in files :
        (/\ pc = "scan"
         /\ ~IsSymlink(Path(root, i))
         /\ Outcome(Path(root, i)) \in errors
         /\ Path(root, i) \in processed')
        => /\ pc' = "scan"
           /\ exit_status' = -1
           /\ file_type_sizes' = file_type_sizes
           /\ Len(stderr') = Len(stderr) + 1
           /\ stderr'[Len(stderr')].kind = "warning"
           /\ stderr'[Len(stderr')].c2 = Path(root, i)
           /\ files' = files \ {i}
           /\ root' = root /\ todo' = todo

AnyFileErrorTolerated == [][FailureStep(Outcomes \ {"ok"})]_vars

\* C2 amended: the above for a size lookup or a classification that raises
\* OSError; no path is stat'd or classified twice; the scan returns only
\* after every entry was processed; a classification error that is not an
\* OSError ends the run with status 1 and no report.
NoRetry(calls) == \A j, l \in 1..Len(calls) : calls[j] = calls[l] => j = l

OSErrorTolerated ==
    [][/\ FailureStep({"stat_oserror", "identify_oserror"})
       /\ NoRetry(stat_calls') /\ NoRetry(identify_calls')
       /\ Cardinality(Warnings') =
             Cardinality({p \in processed' :
                 ~IsSymlink(p) /\ Outcome(p) \in {"stat_oserror", "identify_oserror"}})
       /\ pc' = "display" => processed' = AllPaths(RealDirs)
       /\ \A i \in files :
             (pc = "scan" /\ ~IsSymlink(Path(root, i))
              /\ Outcome(Path(root, i)) = "identify_error"
              /\ Path(root, i) \in processed')
             => pc' = "exit" /\ exit_status' = 1 /\ stdout' = <<>>
                /\ file_type_sizes' = file_type_sizes]_vars

OSErrorWitness ==
    /\ pc = "display"
    /\ Len(stat_calls) >= 2
    /\ Outcome(stat_calls[1]) = "identify_oserror"
    /\ Succeeds(stat_calls[2]) /\ SizeOf(stat_calls[2]) > 0
    /\ \E l \in Warnings : l.c2 = stat_calls[1]
    /\ file_type_sizes # <<>>

\* C3: no symbolic link is stat'd, classified or warned about, processing
\* one changes neither the accumulator nor stderr, the symlinked directory
\* is never listed and no entry below it is ever processed.
SymlinksIgnored ==
    [][/\ \A p \in Range(stat_calls') \cup Range(identify_calls')
                   \cup {l.c2 : l \in Warnings'} :
             p[1] \in RealDirs /\ ~IsSymlink(p)
       /\ visited' \subseteq RealDirs
       /\ processed' \subseteq AllPaths(RealDirs)
       /\ \A p \in processed' \ processed :
             IsSymlink(p) => /\ file_type_sizes' = file_type_sizes
                             /\ stderr' = stderr
                             /\ stat_calls' = stat_calls
                             /\ identify_calls' = identify_calls
                             /\ pc' = pc]_vars

SymlinksWitness ==
    /\ pc = "display"
    /\ \E p \in processed :
          /\ IsSymlink(p) /\ Entry(p).ino # 0
          /\ Outcome(p) = "ok" /\ SizeOf(p) > 0
    /\ \E p \in processed : IsSymlink(p) /\ Entry(p).ino = 0
    /\ file_type_sizes # <<>>
    /\ visited = RealDirs

\* C4 as stated: when the target is a directory and the scan has returned
\* its map, the run ends with status 0, having printed the message alone
\* exactly when the map is empty and otherwise the table with one row per
\* entry and the Total row.
ExitZeroAfterScan ==
    Returned /\ pc = "exit" =>
        /\ exit_status = 0
        /\ file_type_sizes = <<>> <=>
              (Len(stdout) = 1 /\ stdout[1].kind = "message")
        /\ file_type_sizes # <<>> =>
              /\ Len(Rows) = Len(file_type_sizes)
              /\ \E j \in 1..Len(stdout) : stdout[j].kind = "total"
              /\ \A j \in 1..Len(stdout) : stdout[j].kind # "message"

\* C5: a target that is missing or not a directory ends the run with a
\* non-zero status and one error line naming the path, with no classifier
\* constructed, nothing listed, stat'd or classified, and nothing on stdout.
BadTargetAborts ==
    directory # "dir" =>
        /\ pc \in {"main", "exit"}
        /\ magika = FALSE
        /\ visited = {} /\ processed = {}
        /\ stat_calls = <<>> /\ identify_calls = <<>>
        /\ stdout = <<>>
        /\ pc = "exit" =>
              /\ exit_status # 0 /\ exit_status # -1
              /\ Len(stderr) = 1
              /\ stderr[1].kind = "error" /\ stderr[1].c2 = "target"

BadTargetWitness ==
    /\ pc = "exit" /\ directory # "dir" /\ stderr # <<>>

\* C6 as stated: after display_results ran on a non-empty map, the rows
\* are in non-increasing order of size, every entry of the map is on
\* exactly one row, and rows of equal size are in insertion order.
RowsSortedStable ==
    Returned /\ pc = "exit" /\ file_type_sizes # <<>> =>
        /\ \A j \in 1..(Len(Rows) - 1) : Rows[j].size >= Rows[j + 1].size
        /\ \A e \in 1..Len(file_type_sizes) :
              Cardinality({j \in 1..Len(Rows) :
                  /\ Rows[j].c1 = file_type_sizes[e].key
                  /\ Rows[j].size = file_type_sizes[e].value}) = 1
        /\ Len(Rows) = Len(file_type_sizes)
        /\ \A e, f \in 1..Len(file_type_sizes) :
              (e < f /\ file_type_sizes[e].value = file_type_sizes[f].value) =>
                  \E j, l \in 1..Len(Rows) :
                      /\ j < l
                      /\ Rows[j].c1 = file_type_sizes[e].key
                      /\ Rows[l].c1 = file_type_sizes[f].key

\* C7 as stated: after display_results ran on a non-empty map, the Total
\* row shows the formatted sum of the values and 100.00%, every row's
\* percentage is 100 * size / total to the nearest hundredth, and the
\* printed percentages add up to 100.00 within 0.005 per row.
Abs(x) == IF x < 0 THEN -x ELSE x

RECURSIVE SumPct(_)
SumPct(rows) == IF rows = <<>> THEN 0 ELSE Head(rows).pct + SumPct(Tail(rows))

PercentagesExact ==
    Returned /\ pc = "exit" /\ file_type_sizes # <<>> =>
        LET total == Sum(file_type_sizes) IN
        /\ \E j \in 1..Len(stdout) :
              /\ stdout[j].kind = "total"
              /\ stdout[j].size = total
              /\ stdout[j].c2 = format_size(ToLimbs(total))
              /\ stdout[j].c3 = "100.00%"
        /\ Len(Rows) = Len(file_type_sizes)
        /\ \A j \in 1..Len(Rows) :
              /\ 2 * Abs(Rows[j].pct * total - 10000 * Rows[j].size) <= total
              /\ Rows[j].c3 = FixedTwo(Rows[j].pct) \o "%"
        /\ 2 * Abs(SumPct(Rows) - 10000) <= Len(Rows)

\* C9: the mapping returned is the one obtained by processing the entries
\* in listing order, whatever order the traversal took, and under every
\* label it holds size times the number of regular names for each inode
\* that is classified under the label.
RECURSIVE ScanInOrder(_, _)
ScanInOrder(paths, d) ==
    IF paths = <<>> THEN d
    ELSE ScanInOrder(Tail(paths),
                     IF Succeeds(Head(paths))
                     THEN Accumulate(d, LabelOf(Head(paths)), SizeOf(Head(paths)))
                     ELSE d)

ListingOrder ==
    [i \in 1..Len(tree["root"]) |-> Path("root", i)]
    \o [i \in 1..Len(tree["sub"]) |-> Path("sub", i)]

AsMapping(d) == {<<d[j].key, d[j].value>> : j \in 1..Len(d)}

NamesOf(n) == {p \in AllPaths(RealDirs) : ~IsSymlink(p) /\ Entry(p).ino = n}

RECURSIVE PerInode(_, _)
PerInode(N, L) ==
    IF N = {} THEN 0
    ELSE LET n == CHOOSE m \in N : TRUE
         IN  (IF inodes[n].outcome = "ok" /\ inodes[n].label = L
              THEN inodes[n].size * Cardinality(NamesOf(n)) ELSE 0)
             + PerInode(N \ {n}, L)

OrderIndependent ==
    pc = "display" =>
        /\ AsMapping(file_type_sizes) = AsMapping(ScanInOrder(ListingOrder, <<>>))
        /\ \A L \in Labels :
              Get(file_type_sizes, L) = PerInode(1..Len(inodes), L)

OrderWitness ==
    /\ pc = "display"
    /\ Len(stat_calls) = 3
    /\ stat_calls[1] = Path("root", 2) /\ stat_calls[2] = Path("root", 1)
    /\ \A j \in 1..3 : Succeeds(stat_calls[j])
    /\ LabelOf(Path("root", 1)) = LabelOf(Path("root", 2))
    /\ SizeOf(Path("root", 1)) # SizeOf(Path("root", 2))
    /\ SizeOf(Path("root", 1)) > 0
    /\ Entry(Path("sub", 1)).ino = Entry(Path("root", 1)).ino

\* C10: a step that processes a skipped entry leaves the accumulator as it
\* is; a step that processes a successful file adds its size under its
\* label, creating the key if absent, and touches no other key; a label is
\* a key exactly when a processed file succeeded under it, and the map
\* returned is empty exactly when no processed file succeeded.
AccumulatorFrame ==
    [][/\ \A p \in processed' \ processed :
            /\ ~Succeeds(p) => file_type_sizes' = file_type_sizes
            /\ Succeeds(p) =>
                  /\ HasKey(file_type_sizes', LabelOf(p))
                  /\ Get(file_type_sizes', LabelOf(p))
                        = Get(file_type_sizes, LabelOf(p)) + SizeOf(p)
                  /\ \A L \in Labels \ {LabelOf(p)} :
                        /\ HasKey(file_type_sizes', L) <=> HasKey(file_type_sizes, L)
                        /\ Get(file_type_sizes', L) = Get(file_type_sizes, L)
                  /\ Len(file_type_sizes') =
                        Len(file_type_sizes)
                        + (IF HasKey(file_type_sizes, LabelOf(p)) THEN 0 ELSE 1)
       /\ processed' = processed /\ pc' # "main" => file_type_sizes' = file_type_sizes
       /\ \A L \in Labels :
             HasKey(file_type_sizes', L) <=>
                 \E p \in processed' : Succeeds(p) /\ LabelOf(p) = L
       /\ \A j \in 1..Len(file_type_sizes') : file_type_sizes'[j].key \in Labels
       /\ pc' = "display" =>
             (file_type_sizes' = <<>> <=> ~\E p \in processed' : Succeeds(p))]_vars

FrameWitness ==
    /\ pc = "display"
    /\ \E j \in 1..Len(file_type_sizes) : file_type_sizes[j].value = 0
    /\ \E p \in processed : ~IsSymlink(p) /\ Outcome(p) = "identify_oserror"
    /\ \E p \in processed : IsSymlink(p)

-----------------------------------------------------------------------------
(* Properties of format_size (specification SpecFormat)                    *)

UnitNames == <<"B", "KB", "MB", "GB", "TB", "PB">>

Min(a, b) == IF a < b THEN a ELSE b

\* how many times the count can be divided by 1024 while it is >= 1024
Magnitude(l) ==
    IF \A j \in 1..Len(l) : l[j] = 0 THEN 0
    ELSE (CHOOSE j \in 1..Len(l) : l[j] # 0 /\ \A m \in (j + 1)..Len(l) : l[m] = 0) - 1

\* arithmetic on digit sequences of a common width
Width == NumLimbs + 3

Pad(l) == [i \in 1..Width |-> IF i <= Len(l) THEN l[i] ELSE 0]

RECURSIVE Scaled(_, _, _, _)
Scaled(l, c, i, carry) ==
    IF i > Len(l) THEN <<carry>>
    ELSE <<(l[i] * c + carry) % K>> \o Scaled(l, c, i + 1, (l[i] * c + carry) \div K)

Shifted(l, k) ==
    [i \in 1..Width |-> IF i > k /\ i - k <= Len(l) THEN l[i - k] ELSE 0]

PowK(k) == [i \in 1..Width |-> IF i = k + 1 THEN 1 ELSE 0]

RECURSIVE Plus(_, _, _, _)
Plus(a, b, i, carry) ==
    IF i > Width THEN <<>>
    ELSE <<(a[i] + b[i] + carry) % K>> \o Plus(a, b, i + 1, (a[i] + b[i] + carry) \div K)

RECURSIVE LessEq(_, _, _)
LessEq(a, b, i) ==
    IF i = 0 THEN TRUE
    ELSE IF a[i] < b[i] THEN TRUE
    ELSE IF a[i] > b[i] THEN FALSE
    ELSE LessEq(a, b, i - 1)

\* | h - 100 * l / 1024^k | <= 1/2
Nearest(l, k, h) ==
    LET a == Pad(Scaled(l, 200, 1, 0))
        b == Shifted(Scaled(ToLimbs(h), 2, 1, 0), k)
        c == PowK(k)
    IN  /\ LessEq(a, Plus(b, c, 1, 0), Width)
        /\ LessEq(b, Plus(a, c, 1, 0), Width)

\* the unit, the value and the layout of the text, and the examples
FormatCore ==
    /\ formatted.k = Min(Magnitude(size_bytes), 5)
    /\ formatted.unit = UnitNames[formatted.k + 1]
    /\ Nearest(size_bytes, formatted.k, formatted.hundredths)
    /\ formatted.text = FixedTwo(formatted.hundredths) \o " " \o formatted.unit
    /\ size_bytes = ToLimbs(0) => formatted.text = "0.00 B"
    /\ size_bytes = ToLimbs(1023) => formatted.text = "1023.00 B"
    /\ size_bytes = ToLimbs(1024) => formatted.text = "1.00 KB"
    /\ size_bytes = ToLimbs(1536) => formatted.text = "1.50 KB"
    /\ size_bytes = <<0, 0, 0, 0, 1, 0, 0>> => formatted.text = "1.00 TB"
    /\ size_bytes = <<0, 0, 0, 0, 0, 1, 0>> => formatted.text = "1.00 PB"

\* C8 as stated: unit and value as above, and the printed value is below
\* 1024 for every unit except PB.
FormatSizeAsStated ==
    pc = "formatted" =>
        /\ FormatCore
        /\ formatted.unit # "PB" => formatted.hundredths < 100 * K

\* C8 amended: unit and value as above; for every unit except PB the
\* scaled value is below 1024 before it is rounded to two decimals, so the
\* printed value is at most 1024.00.
FormatSizeExact ==
    pc = "formatted" =>
        /\ FormatCore
        /\ formatted.unit # "PB" =>
              /\ ~LessEq(PowK(formatted.k + 1), Pad(size_bytes), Width)
              /\ formatted.hundredths <= 100 * K

FormatSizeWitness ==
    /\ pc = "formatted"
    /\ size_bytes = <<1023, 1023, 0, 0, 0, 0, 0>>
    /\ formatted.text = "1024.00 KB"

=============================================================================
